---- MODULE Spec2Model ----
(***************************************************************************)
(* Model of the futility crate:                                            *)
(*   - terminate::Terminate, the lifecycle controller (src/src/terminate.rs)*)
(*   - try_!, the scoped try/catch macro (src/futility-try-catch/src/lib.rs)*)
(*                                                                         *)
(* Results are tuples: <<"Ok">>, <<"Err", e>>, <<"Panic">>, <<"None">>.    *)
(* Controller errors (type E) are sequences of strings; on_error hooks     *)
(* that wrap an error prepend their context to it.                         *)
(* Every event of the trace is a pair <<kind, routine>>.                   *)
(***************************************************************************)
EXTENDS Integers, Sequences, FiniteSets, TLC

VARIABLES
    \* ---- Terminate<E> (src/src/terminate.rs:13-21) ----
    at_exit,      \* Option<fn()>
    on_error,     \* Option<fn(E) -> E>
    install,      \* Option<fn() -> Result<(), E>>
    hook,         \* the process-wide panic hook (std::panic)
    pc,           \* position of the program around / inside execute
    calls,        \* builder calls made so far, in order
    res,          \* the local `res` of execute
    installOut,   \* what the install routine returned
    mainOut,      \* what the main routine returned
    ret,          \* what execute returned
    trace,        \* routines invoked so far, in order
    \* ---- try_! (src/futility-try-catch/src/lib.rs:106-122) ----
    prog,         \* the macro input and its expansion
    tpc,          \* position of the enclosing function
    stack,        \* frames `?` and `return` unwind to
    idx,          \* next operation of the try region
    closureRes,   \* value of the match scrutinee
    bound,        \* value bound to the catch identifier
    val,          \* value of the whole construct
    fnRet,        \* what the enclosing function returned
    effects       \* side effects performed so far, in order

tvars == <<at_exit, on_error, install, hook, pc, calls, res, installOut,
           mainOut, ret, trace>>
cvars == <<prog, tpc, stack, idx, closureRes, bound, val, fnRet, effects>>
vars == <<at_exit, on_error, install, hook, pc, calls, res, installOut,
          mainOut, ret, trace, prog, tpc, stack, idx, closureRes, bound, val,
          fnRet, effects>>

\* ------------------------------------------------------------------------
\* Bounds
\* ------------------------------------------------------------------------
MaxConfig == 3      \* builder calls before execute
MaxOps == 3         \* operations in a try region

\* ------------------------------------------------------------------------
\* Values
\* ------------------------------------------------------------------------
None == <<"None">>
Some(x) == <<"Some", x>>
Ok == <<"Ok">>
Err(e) == <<"Err", e>>
Panicked == <<"Panic">>
IsErr(r) == r[1] = "Err"

InstallFns == {"install", "install2"}
OnErrorFns == {"eyre_on_error", "box_on_error"}
AtExitFns == {"at_exit", "at_exit2"}
PanicFns == {"panic", "panic2"}
Errors == {<<"bad-setup">>, <<"boom">>}
Outcomes == {Ok, Panicked} \cup {Err(e) : e \in Errors}

\* The on_error routines of the tests: eyre_on_error wraps the error with a
\* context, box_on_error logs and returns the error it was given.
CallOnError(f, e) ==
    IF f = "eyre_on_error" THEN <<"We're at the top of main">> \o e ELSE e

\* ------------------------------------------------------------------------
\* The process-wide panic hook
\* ------------------------------------------------------------------------
DefaultHook == <<"default">>
PriorHook == <<"fn", "prior">>

\* (variant: the closure calls original_hook first and the new routine last)
RECURSIVE HookThen(_, _)
HookThen(h, panic) ==
    IF h[1] = "chain" THEN <<"chain", h[2], HookThen(h[3], panic)>>
    ELSE IF h[1] = "fn" THEN <<"chain", h[2], <<"fn", panic>>>>
    ELSE <<"chain", "default", <<"fn", panic>>>>

ChainHook_originalFirst(panic, original_hook) == HookThen(original_hook, panic)

\* (variant: the closure forgets the hook it took)
ChainHook_dropOriginal(panic, original_hook) == <<"fn", panic>>

\* (variant: the hook in force is kept behind the new one)
ReplaceHook_keepsOld(panic) == <<"chain", panic, hook>>

\* panic::set_hook(Box::new(panic))
ReplaceHook(panic) == <<"fn", panic>>

\* the closure `move |panic_info| { panic(&panic_info); original_hook(&panic_info); }`
ChainHook(panic, original_hook) == <<"chain", panic, original_hook>>

\* Invoking a hook: the handlers it runs, in order.
RECURSIVE RunHook(_)
RunHook(h) ==
    IF h[1] = "chain" THEN <<h[2]>> \o RunHook(h[3])
    ELSE IF h[1] = "fn" THEN <<h[2]>>
    ELSE <<"default">>

PanicEvents(h) ==
    LET hs == RunHook(h) IN [i \in 1..Len(hs) |-> <<"panic_hook", hs[i]>>]

\* ------------------------------------------------------------------------
\* Terminate: construction and configuration
\* ------------------------------------------------------------------------
TryIdle ==
    /\ prog = <<>>
    /\ tpc = "idle"
    /\ stack = <<>>
    /\ idx = 0
    /\ closureRes = None
    /\ bound = None
    /\ val = None
    /\ fnRet = None
    /\ effects = <<>>

\* Terminate::new(), in a process whose panic hook is the default one or one
\* registered earlier.
new ==
    /\ on_error = None
    /\ at_exit = None
    /\ install = None
    /\ hook \in {DefaultHook, PriorHook}
    /\ pc = "config"
    /\ calls = <<>>
    /\ res = None
    /\ installOut = None
    /\ mainOut = None
    /\ ret = None
    /\ trace = <<>>

Init == new /\ TryIdle

Configuring == pc = "config" /\ Len(calls) < MaxConfig

\* (variant: a routine already stored is kept)
Install_firstWins(f) ==
    /\ Configuring
    /\ install' = IF install = None THEN Some(f) ELSE install
    /\ calls' = Append(calls, <<"install", f>>)
    /\ UNCHANGED <<at_exit, on_error, hook, pc, res, installOut, mainOut, ret, trace>>
    /\ UNCHANGED cvars

Install(f) ==
    /\ Configuring
    /\ install' = Some(f)
    /\ calls' = Append(calls, <<"install", f>>)
    /\ UNCHANGED <<at_exit, on_error, hook, pc, res, installOut, mainOut, ret, trace>>
    /\ UNCHANGED cvars

ReplacePanic(p) ==
    /\ Configuring
    /\ hook' = ReplaceHook(p)
    /\ calls' = Append(calls, <<"replace_panic", p>>)
    /\ UNCHANGED <<at_exit, on_error, install, pc, res, installOut, mainOut, ret, trace>>
    /\ UNCHANGED cvars

\* (variant: the routine is only noted, to be registered by execute)
PanicWith_deferred(p) ==
    /\ Configuring
    /\ calls' = Append(calls, <<"panic_with", p>>)
    /\ UNCHANGED <<at_exit, on_error, install, hook, pc, res, installOut, mainOut, ret, trace>>
    /\ UNCHANGED cvars

PanicWith(p) ==
    /\ Configuring
    /\ LET original_hook == hook   \* panic::take_hook()
       IN hook' = ChainHook(p, original_hook)
    /\ calls' = Append(calls, <<"panic_with", p>>)
    /\ UNCHANGED <<at_exit, on_error, install, pc, res, installOut, mainOut, ret, trace>>
    /\ UNCHANGED cvars

OnError(f) ==
    /\ Configuring
    /\ on_error' = Some(f)
    /\ calls' = Append(calls, <<"on_error", f>>)
    /\ UNCHANGED <<at_exit, install, hook, pc, res, installOut, mainOut, ret, trace>>
    /\ UNCHANGED cvars

AtExit(f) ==
    /\ Configuring
    /\ at_exit' = Some(f)
    /\ calls' = Append(calls, <<"at_exit", f>>)
    /\ UNCHANGED <<on_error, install, hook, pc, res, installOut, mainOut, ret, trace>>
    /\ UNCHANGED cvars

\* A panic raised by the program: the registered hook runs, then the thread
\* unwinds; nothing of the program runs after it.
Raise(at) ==
    /\ trace' = trace \o <<at>> \o PanicEvents(hook)
    /\ pc' = "panicked"

\* A panic in the caller's code between the builder calls and execute.
Fault ==
    /\ pc = "config"
    /\ trace' = trace \o PanicEvents(hook)
    /\ pc' = "panicked"
    /\ UNCHANGED <<at_exit, on_error, install, hook, calls, res, installOut, mainOut, ret>>
    /\ UNCHANGED cvars

\* ------------------------------------------------------------------------
\* Terminate::execute, one action per statement
\* ------------------------------------------------------------------------
\* (variant: the error arm rebuilds Err(err) without calling on_error)
MatchOnError_skip(oe, r) == r

\* `res = match (self.on_error, res) { ... }`
MatchOnError(oe, r) ==
    IF oe # None /\ IsErr(r) THEN Err(CallOnError(oe[2], r[2])) ELSE r

OnErrorEvents(oe, r) ==
    IF oe # None /\ IsErr(r) THEN <<<<"on_error", oe[2]>>>> ELSE <<>>

\* `if let Some(at_exit) = self.at_exit { at_exit() }`
AtExitEvents(ae) ==
    IF ae # None THEN <<<<"at_exit", ae[2]>>>> ELSE <<>>

\* entry: `if let Some(install) = self.install`
Execute ==
    /\ pc = "config"
    /\ pc' = IF install # None THEN "install" ELSE "main"
    /\ UNCHANGED <<at_exit, on_error, install, hook, calls, res, installOut, mainOut, ret, trace>>
    /\ UNCHANGED cvars

\* `let mut res = install();`
ExecInstall(out) ==
    /\ pc = "install"
    /\ installOut' = out
    /\ IF out = Panicked
       THEN /\ Raise(<<"install", install[2]>>)
            /\ UNCHANGED res
       ELSE /\ trace' = Append(trace, <<"install", install[2]>>)
            /\ res' = out
            /\ pc' = "install_on_error"
    /\ UNCHANGED <<at_exit, on_error, install, hook, calls, mainOut, ret>>
    /\ UNCHANGED cvars

ExecInstallOnError ==
    /\ pc = "install_on_error"
    /\ res' = MatchOnError(on_error, res)
    /\ trace' = trace \o OnErrorEvents(on_error, res)
    /\ pc' = "install_at_exit"
    /\ UNCHANGED <<at_exit, on_error, install, hook, calls, installOut, mainOut, ret>>
    /\ UNCHANGED cvars

\* (variant: at_exit only "if there was an error")
ExecInstallAtExit_onlyOnError ==
    /\ pc = "install_at_exit"
    /\ trace' = IF IsErr(res) THEN trace \o AtExitEvents(at_exit) ELSE trace
    /\ pc' = "install_try"
    /\ UNCHANGED <<at_exit, on_error, install, hook, calls, res, installOut, mainOut, ret>>
    /\ UNCHANGED cvars

ExecInstallAtExit ==
    /\ pc = "install_at_exit"
    /\ trace' = trace \o AtExitEvents(at_exit)
    /\ pc' = "install_try"
    /\ UNCHANGED <<at_exit, on_error, install, hook, calls, res, installOut, mainOut, ret>>
    /\ UNCHANGED cvars

\* (variant: `return res` in place of `res?`)
ExecInstallTry_alwaysReturn ==
    /\ pc = "install_try"
    /\ ret' = res
    /\ pc' = "returned"
    /\ UNCHANGED <<at_exit, on_error, install, hook, calls, res, installOut, mainOut, trace>>
    /\ UNCHANGED cvars

\* (variant: the install error goes through on_error again when returned)
ExecInstallTry_transformAgain ==
    /\ pc = "install_try"
    /\ IF IsErr(res)
       THEN /\ ret' = MatchOnError(on_error, res)
            /\ trace' = trace \o OnErrorEvents(on_error, res)
            /\ pc' = "returned"
       ELSE /\ ret' = ret
            /\ trace' = trace
            /\ pc' = "main"
    /\ UNCHANGED <<at_exit, on_error, install, hook, calls, res, installOut, mainOut>>
    /\ UNCHANGED cvars

\* (variant: the `?` is missing, the install result is dropped)
ExecInstallTry_noReturn ==
    /\ pc = "install_try"
    /\ pc' = "main"
    /\ UNCHANGED <<at_exit, on_error, install, hook, calls, res, installOut, mainOut, ret, trace>>
    /\ UNCHANGED cvars

\* (variant: the early return runs the exit hook once more)
ExecInstallTry_exitOnReturn ==
    /\ pc = "install_try"
    /\ IF IsErr(res)
       THEN ret' = res /\ pc' = "returned" /\ trace' = trace \o AtExitEvents(at_exit)
       ELSE ret' = ret /\ pc' = "main" /\ trace' = trace
    /\ UNCHANGED <<at_exit, on_error, install, hook, calls, res, installOut, mainOut>>
    /\ UNCHANGED cvars

\* `res?;`  (From<E> for E is the reflexive conversion)
ExecInstallTry ==
    /\ pc = "install_try"
    /\ IF IsErr(res)
       THEN ret' = res /\ pc' = "returned"
       ELSE ret' = ret /\ pc' = "main"
    /\ UNCHANGED <<at_exit, on_error, install, hook, calls, res, installOut, mainOut, trace>>
    /\ UNCHANGED cvars

\* (variant: a panic of main is caught and made a phase error)
ExecMain_catchUnwind(out) ==
    /\ pc = "main"
    /\ mainOut' = out
    /\ trace' = IF out = Panicked
                THEN trace \o <<<<"main", "main">>>> \o PanicEvents(hook)
                ELSE Append(trace, <<"main", "main">>)
    /\ res' = IF out = Panicked THEN Err(<<"panic">>) ELSE out
    /\ pc' = "main_on_error"
    /\ UNCHANGED <<at_exit, on_error, install, hook, calls, installOut, ret>>
    /\ UNCHANGED cvars

\* `let mut res = main();`
ExecMain(out) ==
    /\ pc = "main"
    /\ mainOut' = out
    /\ IF out = Panicked
       THEN /\ Raise(<<"main", "main">>)
            /\ UNCHANGED res
       ELSE /\ trace' = Append(trace, <<"main", "main">>)
            /\ res' = out
            /\ pc' = "main_on_error"
    /\ UNCHANGED <<at_exit, on_error, install, hook, calls, installOut, ret>>
    /\ UNCHANGED cvars

ExecMainOnError ==
    /\ pc = "main_on_error"
    /\ res' = MatchOnError(on_error, res)
    /\ trace' = trace \o OnErrorEvents(on_error, res)
    /\ pc' = "main_at_exit"
    /\ UNCHANGED <<at_exit, on_error, install, hook, calls, installOut, mainOut, ret>>
    /\ UNCHANGED cvars

\* (variant: at_exit only "if there was an error")
ExecMainAtExit_onlyOnError ==
    /\ pc = "main_at_exit"
    /\ trace' = IF IsErr(res) THEN trace \o AtExitEvents(at_exit) ELSE trace
    /\ pc' = "main_ret"
    /\ UNCHANGED <<at_exit, on_error, install, hook, calls, res, installOut, mainOut, ret>>
    /\ UNCHANGED cvars

ExecMainAtExit ==
    /\ pc = "main_at_exit"
    /\ trace' = trace \o AtExitEvents(at_exit)
    /\ pc' = "main_ret"
    /\ UNCHANGED <<at_exit, on_error, install, hook, calls, res, installOut, mainOut, ret>>
    /\ UNCHANGED cvars

\* (variant: execute puts the default hook back before it returns)
ExecReturn_restoresHook ==
    /\ pc = "main_ret"
    /\ ret' = res
    /\ hook' = DefaultHook
    /\ pc' = "returned"
    /\ UNCHANGED <<at_exit, on_error, install, calls, res, installOut, mainOut, trace>>
    /\ UNCHANGED cvars

\* (variant: the tail expression is Ok(()))
ExecReturn_okAlways ==
    /\ pc = "main_ret"
    /\ ret' = Ok
    /\ pc' = "returned"
    /\ UNCHANGED <<at_exit, on_error, install, hook, calls, res, installOut, mainOut, trace>>
    /\ UNCHANGED cvars

\* the tail expression `res`
ExecReturn ==
    /\ pc = "main_ret"
    /\ ret' = res
    /\ pc' = "returned"
    /\ UNCHANGED <<at_exit, on_error, install, hook, calls, res, installOut, mainOut, trace>>
    /\ UNCHANGED cvars

Next ==
    \/ \E f \in InstallFns : Install(f)
    \/ \E p \in PanicFns : ReplacePanic(p)
    \/ \E p \in PanicFns : PanicWith(p)
    \/ \E f \in OnErrorFns : OnError(f)
    \/ \E f \in AtExitFns : AtExit(f)
    \/ Fault
    \/ Execute
    \/ \E out \in Outcomes : ExecInstall(out)
    \/ ExecInstallOnError
    \/ ExecInstallAtExit
    \/ ExecInstallTry
    \/ \E out \in Outcomes : ExecMain(out)
    \/ ExecMainOnError
    \/ ExecMainAtExit
    \/ ExecReturn

Spec == Init /\ [][Next]_vars

\* The statements of execute: the body runs on the calling thread, each
\* statement following the one before it, so a started execute keeps going.
ExecStep ==
    \/ \E out \in Outcomes : ExecInstall(out)
    \/ ExecInstallOnError
    \/ ExecInstallAtExit
    \/ ExecInstallTry
    \/ \E out \in Outcomes : ExecMain(out)
    \/ ExecMainOnError
    \/ ExecMainAtExit
    \/ ExecReturn

FairSpec == Init /\ [][Next]_vars /\ WF_vars(ExecStep)

\* ------------------------------------------------------------------------
\* try_!: the macro
\* ------------------------------------------------------------------------
Values == {"Will not fail", "use this if failed"}
ErrTypes == {"BoxDynError", "IoError"}
\* error values <<type, message>> the operations of a try region fail with
OpErrors == {<<"BoxDynError", "Always Fails">>, <<"IoError", "NotFound">>,
             <<"IoError", "PermissionDenied">>}
OpOutcomes == {Ok} \cup {Err(e) : e \in OpErrors}

\* From::from(e) into the error type `to`: the reflexive impl returns e, the
\* impl for Box<dyn Error> boxes the value.
From(e, to) == IF e[1] = to THEN e ELSE <<to, e[1], e[2]>>
\* whether `impl From<from> for to` exists
HasFrom(from, to) == from = to \/ to = "BoxDynError"

\* a block `{ op_1()?; ...; op_n()?; value }`, each op given by what it returns
Block(ops, value) == [ops |-> ops, value |-> value]
\* `{ errored = Some(err); value }`
CatchBlock(value) == [ops |-> <<>>, value |-> value]

\* the token stream `{ try } catch Type as ident { catch }`
Tokens(try_block, error_ty, error_ident, catch_block) ==
    <<try_block, "catch", error_ty, "as", error_ident, catch_block>>

\* (variant: the two blocks are stored in each other's field)
Parse_swapped(input) ==
    [try_block |-> input[6],
     catch_block |-> input[1],
     error_ty |-> input[3],
     error_ident |-> input[5]]

\* impl Parse for TryCatchInput
Parse(input) ==
    [try_block |-> input[1],
     catch_block |-> input[6],
     error_ty |-> input[3],
     error_ident |-> input[5]]

\* (variant: the Err arm is the try block again)
try_errArmIsTry(tokens) ==
    LET in == Parse(tokens) IN
    [scrutinee |-> [kind |-> "closure_call",
                    err_ty |-> in.error_ty,
                    body |-> in.try_block],
     ok_arm |-> "ret",
     err_pat |-> in.error_ident,
     err_arm |-> in.try_block]

\* (variant: the try block is the scrutinee itself, not a closure's body)
try_noClosure(tokens) ==
    LET in == Parse(tokens) IN
    [scrutinee |-> [kind |-> "block",
                    err_ty |-> in.error_ty,
                    body |-> in.try_block],
     ok_arm |-> "ret",
     err_pat |-> in.error_ident,
     err_arm |-> in.catch_block]

\* the expansion:
\*   match || -> Result<_, #error_ty> { Ok(#try_block) }() {
\*       Ok(ret) => ret,
\*       Err(#error_ident) => #catch_block
\*   }
try_(tokens) ==
    LET in == Parse(tokens) IN
    [scrutinee |-> [kind |-> "closure_call",
                    err_ty |-> in.error_ty,
                    body |-> in.try_block],
     ok_arm |-> "ret",
     err_pat |-> in.error_ident,
     err_arm |-> in.catch_block]

SeqsUpTo(S, n) == UNION {[1..k -> S] : k \in 0..n}

\* the try_! invocations that compile: every `?` of the try region has a
\* From impl into the declared error type
Inputs ==
    {Tokens(Block(ops, v), ty, "err", CatchBlock(c)) :
        ops \in SeqsUpTo(OpOutcomes, MaxOps), v \in Values, ty \in ErrTypes, c \in Values}

Compiles(tokens) ==
    \A i \in DOMAIN tokens[1].ops :
        IsErr(tokens[1].ops[i]) => HasFrom(tokens[1].ops[i][2][1], tokens[3])

TerminateIdle ==
    /\ on_error = None
    /\ at_exit = None
    /\ install = None
    /\ hook = DefaultHook
    /\ pc = "idle"
    /\ calls = <<>>
    /\ res = None
    /\ installOut = None
    /\ mainOut = None
    /\ ret = None
    /\ trace = <<>>

\* A function whose body is `try_!(...)` followed by further statements, as
\* the tests try_catch and try_catch_ret_val.
InitTry ==
    /\ TerminateIdle
    /\ \E tokens \in Inputs :
          /\ Compiles(tokens)
          /\ prog = [tokens |-> tokens, code |-> try_(tokens)]
    /\ tpc = "start"
    /\ stack = <<"fn">>
    /\ idx = 0
    /\ closureRes = None
    /\ bound = None
    /\ val = None
    /\ fnRet = None
    /\ effects = <<>>

Top(st) == st[Len(st)]
Pop(st) == SubSeq(st, 1, Len(st) - 1)
TryBody == prog.code.scrutinee.body

\* the scrutinee starts: calling the closure pushes its frame
EvalScrutinee ==
    /\ tpc = "start"
    /\ stack' = IF prog.code.scrutinee.kind = "closure_call"
                THEN Append(stack, "closure") ELSE stack
    /\ idx' = 1
    /\ tpc' = "try"
    /\ UNCHANGED <<closureRes, bound, val, fnRet, effects, prog>>
    /\ UNCHANGED tvars

\* `op()?`: on Err(e), `return Err(From::from(e))` from the innermost
\* function or closure
TryOp ==
    /\ tpc = "try"
    /\ idx <= Len(TryBody.ops)
    /\ effects' = Append(effects, <<"op", idx>>)
    /\ LET out == TryBody.ops[idx] IN
       IF ~IsErr(out)
       THEN /\ idx' = idx + 1
            /\ UNCHANGED <<tpc, stack, closureRes, fnRet>>
       ELSE /\ idx' = idx
            /\ stack' = Pop(stack)
            /\ IF Top(stack) = "closure"
               THEN /\ closureRes' = Err(From(out[2], prog.code.scrutinee.err_ty))
                    /\ tpc' = "match"
                    /\ UNCHANGED fnRet
               ELSE /\ fnRet' = Err(From(out[2], prog.code.scrutinee.err_ty))
                    /\ tpc' = "fn_returned"
                    /\ UNCHANGED closureRes
    /\ UNCHANGED <<bound, val, prog>>
    /\ UNCHANGED tvars

\* the end of the try block: `Ok(#try_block)` is the scrutinee's value
TryEnd ==
    /\ tpc = "try"
    /\ idx > Len(TryBody.ops)
    /\ closureRes' = <<"Ok", TryBody.value>>
    /\ stack' = IF Top(stack) = "closure" THEN Pop(stack) ELSE stack
    /\ tpc' = "match"
    /\ UNCHANGED <<idx, bound, val, fnRet, effects, prog>>
    /\ UNCHANGED tvars

\* `Ok(ret) => ret`, `Err(#error_ident) => #catch_block`
MatchArm ==
    /\ tpc = "match"
    /\ IF closureRes[1] = "Ok"
       THEN /\ val' = IF prog.code.ok_arm = "ret"
                      THEN Some(closureRes[2]) ELSE Some(prog.code.err_arm.value)
            /\ tpc' = "after"
            /\ UNCHANGED bound
       ELSE /\ bound' = Some(closureRes[2])
            /\ tpc' = "catch"
            /\ UNCHANGED val
    /\ UNCHANGED <<stack, idx, closureRes, fnRet, effects, prog>>
    /\ UNCHANGED tvars

\* the catch block runs with the error bound and yields its value
Catch ==
    /\ tpc = "catch"
    /\ effects' = Append(effects, <<"catch", 0>>)
    /\ val' = Some(prog.code.err_arm.value)
    /\ tpc' = "after"
    /\ UNCHANGED <<stack, idx, closureRes, bound, fnRet, prog>>
    /\ UNCHANGED tvars

\* the statements of the enclosing function after the construct
After ==
    /\ tpc = "after"
    /\ effects' = Append(effects, <<"after", 0>>)
    /\ fnRet' = Ok
    /\ stack' = Pop(stack)
    /\ tpc' = "fn_done"
    /\ UNCHANGED <<idx, closureRes, bound, val, prog>>
    /\ UNCHANGED tvars

NextTry ==
    \/ EvalScrutinee
    \/ TryOp
    \/ TryEnd
    \/ MatchArm
    \/ Catch
    \/ After

SpecTry == InitTry /\ [][NextTry]_vars

\* ------------------------------------------------------------------------
\* Observations on the trace
\* ------------------------------------------------------------------------
Indices(kind) == {i \in DOMAIN trace : trace[i][1] = kind}
Count(kind) == Cardinality(Indices(kind))
Returned == pc = "returned"
HasReturned(out) == out = Ok \/ IsErr(out)
PhasesReturned ==
    (IF HasReturned(installOut) THEN 1 ELSE 0) + (IF HasReturned(mainOut) THEN 1 ELSE 0)
\* the install / at_exit / main events of the trace, by kind
PhaseKinds ==
    LET t == SelectSeq(trace, LAMBDA ev : ev[1] \in {"install", "at_exit", "main"})
    IN [i \in 1..Len(t) |-> t[i][1]]
IsPrefix(s, t) == Len(s) <= Len(t) /\ SubSeq(t, 1, Len(s)) = s

\* ------------------------------------------------------------------------
\* C1: when install is set and the install routine returns an error e,
\* execute never invokes main, invokes the exit hook exactly once if one is
\* configured (never otherwise) and returns Err(on_error(e)) when on_error is
\* set, Err(e) when it is not.
\* ------------------------------------------------------------------------
C1_InstallFailure ==
    (install # None /\ IsErr(installOut)) =>
        /\ Count("main") = 0
        /\ mainOut = None
        /\ Count("install") = 1
        /\ Count("at_exit") <= (IF at_exit # None THEN 1 ELSE 0)
        /\ pc \in {"install_on_error", "install_at_exit", "install_try", "returned"}
        /\ Returned =>
            /\ Count("at_exit") = (IF at_exit # None THEN 1 ELSE 0)
            /\ ret = IF on_error # None
                     THEN Err(CallOnError(on_error[2], installOut[2]))
                     ELSE Err(installOut[2])

C1_Witness ==
    /\ Returned
    /\ installOut = Err(<<"bad-setup">>)
    /\ on_error = Some("eyre_on_error")
    /\ at_exit # None
    /\ ret = Err(<<"We're at the top of main", "bad-setup">>)
    /\ Count("at_exit") = 1

\* ------------------------------------------------------------------------
\* C2: when install is set and returns Ok and an exit hook is configured,
\* the events are install, exit hook, main, exit hook in this order: the
\* exit hook runs exactly twice, once before main is invoked and once after
\* main returned, whether main returns Ok or an error.
\* ------------------------------------------------------------------------
C2_Order == <<"install", "at_exit", "main", "at_exit">>

PhaseBefore(i) ==
    CHOOSE j \in 1..(i - 1) :
        /\ trace[j][1] \in {"install", "main"}
        /\ \A k \in (j + 1)..(i - 1) : trace[k][1] \notin {"install", "main"}
PhaseOut(j) == IF trace[j][1] = "install" THEN installOut ELSE mainOut
FailedOut == IF IsErr(installOut) THEN installOut ELSE mainOut

C4_TransformBeforeExit ==
    /\ \A i \in Indices("at_exit") :
          LET j == PhaseBefore(i) IN
          IF IsErr(PhaseOut(j)) /\ on_error # None
          THEN i = j + 2 /\ trace[j + 1] = <<"on_error", on_error[2]>>
          ELSE i = j + 1
    /\ \A p \in Indices("on_error") :
          /\ on_error # None
          /\ trace[p] = <<"on_error", on_error[2]>>
          /\ p > 1
          /\ trace[p - 1][1] \in {"install", "main"}
          /\ IsErr(PhaseOut(p - 1))
    /\ (Returned /\ IsErr(FailedOut)) =>
          IF on_error # None
          THEN /\ ret = Err(CallOnError(on_error[2], FailedOut[2]))
               /\ Count("on_error") = 1
          ELSE /\ ret = FailedOut
               /\ Count("on_error") = 0

C4_Witness ==
    /\ Returned
    /\ mainOut = Err(<<"boom">>)
    /\ on_error = Some("eyre_on_error")
    /\ at_exit # None
    /\ ret = Err(<<"We're at the top of main", "boom">>)
    /\ trace[Len(trace)][1] = "at_exit"
    /\ trace[Len(trace) - 1][1] = "on_error"

\* ------------------------------------------------------------------------
\* C5: execute produces no error of its own: it returns Err only when
\* install or main returned an error, and then that error, possibly passed
\* through on_error; it returns Ok when every phase that ran returned Ok;
\* it does not panic unless a routine it called panicked.
\* ------------------------------------------------------------------------
C5_NoOwnError ==
    /\ Returned =>
        /\ ret # None
        /\ IsErr(ret) <=> (IsErr(installOut) \/ IsErr(mainOut))
        /\ IsErr(ret) =>
              ret[2] \in {FailedOut[2]} \cup {CallOnError(f, FailedOut[2]) : f \in OnErrorFns}
        /\ (installOut \in {None, Ok} /\ mainOut = Ok) => ret = Ok
    /\ (pc = "panicked" /\ Count("install") + Count("main") > 0) =>
          (installOut = Panicked \/ mainOut = Panicked)
    /\ ~Returned => ret = None

C5_Witness ==
    /\ Returned
    /\ install # None
    /\ on_error # None
    /\ at_exit # None
    /\ installOut = Ok
    /\ mainOut = Ok
    /\ ret = Ok

TryOps == prog.tokens[1].ops
TryValue == prog.tokens[1].value
CatchValue == prog.tokens[6].value
DeclaredTy == prog.tokens[3]
Failing == {i \in DOMAIN TryOps : IsErr(TryOps[i])}
FirstFail == CHOOSE i \in Failing : \A j \in Failing : i <= j
FirstError == TryOps[FirstFail][2]
OpsRun == {effects[i][2] : i \in {k \in DOMAIN effects : effects[k][1] = "op"}}
CatchCount == Cardinality({i \in DOMAIN effects : effects[i][1] = "catch"})
PastConstruct == tpc \in {"after", "fn_done"}

\* ------------------------------------------------------------------------
\* C7: when every operation of the try region succeeds, try_! evaluates to
\* the try region's final value, the catch region is never evaluated and
\* none of its side effects occur.
\* ------------------------------------------------------------------------
C7_TrySuccess ==
    (tpc # "idle" /\ Failing = {}) =>
        /\ CatchCount = 0
        /\ bound = None
        /\ tpc \notin {"catch", "fn_returned"}
        /\ PastConstruct =>
              /\ val = Some(TryValue)
              /\ OpsRun = DOMAIN TryOps

C7_Witness ==
    /\ tpc = "fn_done"
    /\ Len(TryOps) >= 2
    /\ Failing = {}
    /\ TryValue = "Will not fail"
    /\ CatchValue = "use this if failed"
    /\ val = Some("Will not fail")

\* ------------------------------------------------------------------------
\* C8 (as stated): when some operation of the try region fails, with e the
\* error of the first failing one, no later operation of the try region
\* runs, the catch region is evaluated exactly once with e bound to the
\* declared identifier, and try_! evaluates to the catch region's value.
\* ------------------------------------------------------------------------
C8_Original ==
    (tpc # "idle" /\ Failing # {}) =>
        /\ \A i \in OpsRun : i <= FirstFail
        /\ CatchCount <= 1
        /\ bound # None => bound = Some(FirstError)
        /\ PastConstruct =>
              /\ CatchCount = 1
              /\ bound = Some(FirstError)
              /\ val = Some(CatchValue)

\* ------------------------------------------------------------------------
\* C8 (amended): as above, but the value bound to the declared identifier is
\* From::from(e), e converted into the declared error type: e itself when
\* the operation's error type is the declared one.
\* ------------------------------------------------------------------------
C8_TryFailure ==
    (tpc # "idle" /\ Failing # {}) =>
        /\ \A i \in OpsRun : i <= FirstFail
        /\ CatchCount <= 1
        /\ bound # None => bound = Some(From(FirstError, DeclaredTy))
        /\ (FirstError[1] = DeclaredTy /\ bound # None) => bound = Some(FirstError)
        /\ PastConstruct =>
              /\ CatchCount = 1
              /\ bound = Some(From(FirstError, DeclaredTy))
              /\ val = Some(CatchValue)

C8_Witness ==
    /\ tpc = "fn_done"
    /\ Len(TryOps) = 3
    /\ FirstFail = 2
    /\ IsErr(TryOps[3])
    /\ TryOps[3] # TryOps[2]
    /\ FirstError[1] = "IoError"
    /\ DeclaredTy = "BoxDynError"
    /\ TryValue # CatchValue
    /\ val = Some(CatchValue)
    /\ CatchCount = 1

\* ------------------------------------------------------------------------
\* C9: a failure inside the try region never propagates past try_!: the
\* enclosing function is not returned from by a `?` of the try region, and
\* the statements after the construct run once the catch region completed.
\* ------------------------------------------------------------------------
C9_NoPropagation ==
    (tpc # "idle") =>
        /\ tpc # "fn_returned"
        /\ ~IsErr(fnRet)
        /\ (tpc # "fn_done") => (fnRet = None /\ stack # <<>> /\ stack[1] = "fn")
        /\ (tpc = "fn_done" /\ Failing # {}) =>
              /\ Len(effects) >= 2
              /\ effects[Len(effects)] = <<"after", 0>>
              /\ effects[Len(effects) - 1] = <<"catch", 0>>
              /\ fnRet = Ok

C9_Witness ==
    /\ tpc = "fn_done"
    /\ Failing # {}
    /\ fnRet = Ok
    /\ effects[Len(effects)] = <<"after", 0>>
    /\ effects[Len(effects) - 1] = <<"catch", 0>>

\* ------------------------------------------------------------------------
\* C10: panic_with(p) while a hook h is installed leaves a hook that runs p
\* first and then what h ran, each once, h being kept; a later panic runs
\* exactly the handlers of the installed hook, in that order.
\* ------------------------------------------------------------------------
PanicHandlers ==
    LET t == SelectSeq(trace, LAMBDA ev : ev[1] = "panic_hook")
    IN [i \in 1..Len(t) |-> t[i][2]]

C10_ChainOrder ==
    [][/\ \A p \in PanicFns :
             calls' = Append(calls, <<"panic_with", p>>)
                => RunHook(hook') = <<p>> \o RunHook(hook)
       /\ (pc # "panicked" /\ pc' = "panicked")
                => PanicHandlers' = RunHook(hook)
       /\ (pc # "config") => hook' = hook
      ]_vars

C10_Witness ==
    /\ pc = "panicked"
    /\ \E i \in DOMAIN calls : calls[i] = <<"panic_with", "panic">>
    /\ PanicHandlers = <<"panic", "prior">>

\* ------------------------------------------------------------------------
\* Observations on the panic hook registrations
\* ------------------------------------------------------------------------
PanicRegs == SelectSeq(calls, LAMBDA c : c[1] \in {"replace_panic", "panic_with"})
LastPanicReg == PanicRegs[Len(PanicRegs)]
BeforeExecute == Count("install") + Count("main") = 0

\* ------------------------------------------------------------------------
\* C11: after replace_panic(p) the process-wide hook is exactly p: a later
\* panic runs p alone, and no handler installed earlier (the default one, one
\* registered before, one chained before) is invoked.
\* ------------------------------------------------------------------------
C11_ReplaceOnly ==
    (PanicRegs # <<>> /\ LastPanicReg[1] = "replace_panic") =>
        /\ hook = <<"fn", LastPanicReg[2]>>
        /\ RunHook(hook) = <<LastPanicReg[2]>>
        /\ pc = "panicked" => PanicHandlers = <<LastPanicReg[2]>>

C11_Witness ==
    /\ pc = "panicked"
    /\ Len(PanicRegs) = 2
    /\ PanicRegs[1] = <<"panic_with", "panic">>
    /\ PanicRegs[2] = <<"replace_panic", "panic2">>
    /\ PanicHandlers = <<"panic2">>

\* ------------------------------------------------------------------------
\* C12: replace_panic and panic_with take effect when they are called, not
\* when execute runs: the routine registered last is the first handler of
\* the hook from the call on, a panic before execute (or without execute)
\* runs it, and so does a panic inside install or main.
\* ------------------------------------------------------------------------
C12_ImmediateEffect ==
    (PanicRegs # <<>>) =>
        /\ RunHook(hook)[1] = LastPanicReg[2]
        /\ pc = "panicked" =>
              /\ PanicHandlers # <<>>
              /\ PanicHandlers[1] = LastPanicReg[2]
              /\ PanicHandlers = RunHook(hook)

C12_Witness ==
    /\ pc = "panicked"
    /\ BeforeExecute
    /\ PanicRegs # <<>>
    /\ LastPanicReg = <<"panic_with", "panic">>
    /\ PanicHandlers[1] = "panic"

\* ------------------------------------------------------------------------
\* C13 (as documented on execute): the at_exit call that follows a phase
\* belongs to the error case of that phase: at_exit is called after install,
\* respectively main, if that phase returned an error, and is not called for
\* a phase that returned Ok.
\* ------------------------------------------------------------------------
C13_AtExitOnlyOnError ==
    /\ \A i \in Indices("at_exit") : IsErr(PhaseOut(PhaseBefore(i)))
    /\ (Returned /\ at_exit # None) =>
          Count("at_exit") = (IF IsErr(installOut) \/ IsErr(mainOut) THEN 1 ELSE 0)

\* ------------------------------------------------------------------------
\* C14: provided the routines return, execute terminates; main is invoked
\* exactly once in every run in which install is unset or returned Ok,
\* whichever hooks are configured; execute returns without having invoked
\* main only when install returned an error.
\* ------------------------------------------------------------------------
Started == pc \notin {"config", "panicked", "returned"}
Stopped == pc = "returned" \/ installOut = Panicked \/ mainOut = Panicked

C14_MainOnce ==
    /\ Count("main") <= 1
    /\ Returned =>
          /\ (install = None \/ installOut = Ok) => Count("main") = 1
          /\ Count("main") = 0 => (install # None /\ IsErr(installOut))
    /\ (pc \in {"main_on_error", "main_at_exit", "main_ret"}) => Count("main") = 1

C14_Termination == []C14_MainOnce /\ (Started ~> Stopped)

C14_Witness ==
    /\ Returned
    /\ installOut = Ok
    /\ on_error # None
    /\ at_exit # None
    /\ IsErr(mainOut)
    /\ Count("main") = 1

\* ------------------------------------------------------------------------
\* C15: after any sequence of replace_panic and panic_with calls, a panic
\* runs the handlers of one ordered list front to back, where panic_with
\* puts its routine at the front of the list and replace_panic replaces the
\* list by its routine alone: successive panic_with calls run latest first
\* and the handler present before them last; a panic_with after a
\* replace_panic runs the new routine, then the replacing one, nothing else.
\* ------------------------------------------------------------------------
RECURSIVE ListAfter(_, _)
ListAfter(regs, list) ==
    IF regs = <<>> THEN list
    ELSE ListAfter(Tail(regs),
                   IF Head(regs)[1] = "panic_with"
                   THEN <<Head(regs)[2]>> \o list
                   ELSE <<Head(regs)[2]>>)

C15_ListState ==
    /\ \E first \in {"default", "prior"} :
          RunHook(hook) = ListAfter(PanicRegs, <<first>>)
    /\ pc = "panicked" => PanicHandlers = RunHook(hook)

C15_ListStep ==
    /\ \A p \in PanicFns :
          /\ calls' = Append(calls, <<"panic_with", p>>)
                => RunHook(hook') = ListAfter(<<<<"panic_with", p>>>>, RunHook(hook))
          /\ calls' = Append(calls, <<"replace_panic", p>>)
                => RunHook(hook') = ListAfter(<<<<"replace_panic", p>>>>, RunHook(hook))
    /\ PanicRegs' = PanicRegs => RunHook(hook') = RunHook(hook)
    /\ (pc # "panicked" /\ pc' = "panicked") => PanicHandlers' = RunHook(hook)

C15_ListRefinement == []C15_ListState /\ [][C15_ListStep]_vars

C15_Witness ==
    /\ pc = "panicked"
    /\ PanicRegs = <<<<"replace_panic", "panic">>, <<"panic_with", "panic2">>,
                     <<"panic_with", "panic">>>>
    /\ PanicHandlers = <<"panic", "panic2", "panic">>

\* ------------------------------------------------------------------------
\* C16: on_error is invoked only on an error: never for a phase that
\* returned Ok, once for a phase that returned an error (an install error is
\* not transformed again when it is returned), hence at most once per
\* execute; what it returns is returned as an error, never as a success.
\* ------------------------------------------------------------------------
\* how many times eyre_on_error wrapped the error e
Wraps(e) == Cardinality({i \in DOMAIN e : e[i] = "We're at the top of main"})

C16_TransformOnlyOnError ==
    /\ Count("on_error") <= 1
    /\ Count("on_error") <=
          Cardinality({i \in Indices("install") \cup Indices("main") : IsErr(PhaseOut(i))})
    /\ \A p \in Indices("on_error") : p > 1 /\ IsErr(PhaseOut(p - 1))
    /\ (installOut \in {None, Ok} /\ mainOut \in {None, Ok}) => Count("on_error") = 0
    /\ Returned =>
          /\ Count("on_error") =
                (IF on_error # None /\ IsErr(FailedOut) THEN 1 ELSE 0)
          /\ IsErr(FailedOut) =>
                /\ IsErr(ret)
                /\ Wraps(ret[2]) = (IF on_error = Some("eyre_on_error") THEN 1 ELSE 0)
          /\ ~IsErr(FailedOut) => (ret = Ok /\ Count("on_error") = 0)

C16_Witness ==
    /\ Returned
    /\ on_error = Some("eyre_on_error")
    /\ IsErr(installOut)
    /\ Count("on_error") = 1
    /\ ret = Err(<<"We're at the top of main">> \o installOut[2])

\* ------------------------------------------------------------------------
\* C17: install, on_error and at_exit called again on the same controller
\* overwrite: execute uses the routine passed to the last call of each
\* method, and a routine passed only to an earlier call is never invoked.
\* ------------------------------------------------------------------------
CallsOf(method) == SelectSeq(calls, LAMBDA c : c[1] = method)
LastOf(method) ==
    IF CallsOf(method) = <<>> THEN None
    ELSE Some(CallsOf(method)[Len(CallsOf(method))][2])

C17_LastWriteWins ==
    /\ install = LastOf("install")
    /\ on_error = LastOf("on_error")
    /\ at_exit = LastOf("at_exit")
    /\ \A i \in DOMAIN trace :
          trace[i][1] \in {"install", "on_error", "at_exit"}
             => Some(trace[i][2]) = LastOf(trace[i][1])

C17_Witness ==
    /\ Returned
    /\ CallsOf("install") = <<<<"install", "install">>, <<"install", "install2">>>>
    /\ \E i \in DOMAIN trace : trace[i] = <<"install", "install2">>
    /\ \A i \in DOMAIN trace : trace[i] # <<"install", "install">>

\* ------------------------------------------------------------------------
\* C18: the hooks stored in the controller and the process-wide panic hook
\* are independent: install, on_error, at_exit and execute leave the panic
\* hook as it is (it is still in force when execute has returned),
\* replace_panic and panic_with leave the stored install, on_error and
\* at_exit as they are, and no configuration method invokes a routine.
\* ------------------------------------------------------------------------
Stored == <<install, on_error, at_exit>>
LastCall == calls[Len(calls)]

C18_Frame ==
    [][/\ (calls' # calls /\ LastCall'[1] \in {"install", "on_error", "at_exit"})
            => (hook' = hook /\ trace' = trace)
       /\ (calls' # calls /\ LastCall'[1] \in {"replace_panic", "panic_with"})
            => (Stored' = Stored /\ trace' = trace)
       /\ (calls' # calls) => (Len(calls') = Len(calls) + 1 /\ pc' = "config" /\ pc = "config")
       /\ (calls' = calls) => (hook' = hook /\ Stored' = Stored)
       /\ (pc' = "returned") => hook' = hook
      ]_vars

C18_Witness ==
    /\ Returned
    /\ install # None
    /\ at_exit # None
    /\ PanicRegs # <<>>
    /\ hook = <<"chain", "panic", PriorHook>>

\* ------------------------------------------------------------------------
\* C19: a panic inside install or main is not made a phase error: the panic
\* hook runs, execute invokes neither on_error nor at_exit for that phase,
\* invokes no later phase and returns nothing.
\* ------------------------------------------------------------------------
\* position in the trace of the phase that panicked
PanickedAt ==
    IF installOut = Panicked
    THEN CHOOSE i \in Indices("install") : TRUE
    ELSE CHOOSE i \in Indices("main") : TRUE

C19_PanicNotAnError ==
    (installOut = Panicked \/ mainOut = Panicked) =>
        /\ pc = "panicked"
        /\ ret = None
        /\ res \in {None, Ok}
        /\ installOut = Panicked => (mainOut = None /\ Count("main") = 0)
        /\ \A i \in (PanickedAt + 1)..Len(trace) : trace[i][1] = "panic_hook"
        /\ PanicHandlers = RunHook(hook)
        /\ PanicHandlers # <<>>

C19_Witness ==
    /\ mainOut = Panicked
    /\ installOut = Ok
    /\ at_exit # None
    /\ pc = "panicked"
    /\ Count("at_exit") = 1
    /\ PanicHandlers = <<"panic2", "default">>

====
